---- MODULE Spec2Model ----
(***************************************************************************)
(* Model of UnicodeConvAtlStd.hpp: ToUtf8 (UTF-16 CString -> UTF-8         *)
(* std::string) and ToUtf16 (UTF-8 std::string -> UTF-16 CString), the     *)
(* helper Details::SafeSizeToInt and the exception they throw, together    *)
(* with the Win32 transcoder the two functions call twice per conversion   *)
(* (::WideCharToMultiByte / ::MultiByteToWideChar with CP_UTF8) and the    *)
(* calling thread's last-error code (::GetLastError).                      *)
(*                                                                         *)
(* A string is a record [head, pad]: the elements of head followed by pad  *)
(* copies of the letter 'a' (0x61).  The padding lets a std::string be     *)
(* longer than INT_MAX without its elements being enumerated.  A size_t    *)
(* is a record [hi, lo] standing for hi * 2^31 + lo, 0 <= lo <= INT_MAX,   *)
(* so that sizes beyond the range of an int are exact.                     *)
(***************************************************************************)
EXTENDS Integers, Sequences, FiniteSets, TLC

\* ------------------------------------------------------------------ bounds
\* Longest enumerated input string (elements taken from Bytes / Units).
MaxLen == 4
\* Longest enumerated input string of the specification with a failing transcoder.
MaxLenSmall == 1
\* Number of threads calling the converters concurrently.
NThreads == 2

\* ---------------------------------------------------------- program constants
\* std::numeric_limits<int>::max() of a 32-bit int.
kIntMax == 2147483647
\* WC_ERR_INVALID_CHARS, the flags of ToUtf8.
WC_ERR_INVALID_CHARS == 128
\* MB_ERR_INVALID_CHARS, the flags of ToUtf16.
MB_ERR_INVALID_CHARS == 8
\* Win32 last-error codes the transcoder sets when it returns 0.
ERROR_SUCCESS == 0
ERROR_INVALID_PARAMETER == 87
ERROR_INSUFFICIENT_BUFFER == 122
ERROR_INVALID_FLAGS == 1004
ERROR_NO_UNICODE_TRANSLATION == 1113

\* The blank std::string's constructor fills the destination with, U+FFFD,
\* and the content of a CString buffer that GetBuffer returned and nothing has
\* written yet.  (The padding of a string, the letter 'a', is one byte in
\* UTF-8 and one unit in UTF-16, so a conversion leaves its count unchanged.)
Blank == 32
ReplacementChar == 65533
Indeterminate == -1

\* ------------------------------------------------------------------- size_t
Size(n) == [hi |-> 0, lo |-> n]
\* a + k for a small k >= 0, without leaving the range of lo.
SizeAdd(a, k) ==
    IF a.lo > kIntMax - k
    THEN [hi |-> a.hi + 1, lo |-> a.lo - (kIntMax - k) - 1]
    ELSE [hi |-> a.hi, lo |-> a.lo + k]
\* a > b.
SizeGT(a, b) == a.hi > b.hi \/ (a.hi = b.hi /\ a.lo > b.lo)
\* static_cast<int>(a): the low 32 bits of a, read as a signed int.
StaticCastInt(a) == IF a.hi % 2 = 0 THEN a.lo ELSE a.lo - kIntMax - 1

\* ------------------------------------------------------------------ strings
Str(h) == [head |-> h, pad |-> Size(0)]
EmptyStr == Str(<<>>)
\* The length of s as a size_t, and as an int when it is known to fit one.
Length(s) == SizeAdd(s.pad, Len(s.head))
IntLength(s) == Len(s.head) + s.pad.lo
Repeat(x, n) == [i \in 1..n |-> x]

\* The first n elements of s (n an int >= 0).
Prefix(s, n) ==
    IF n <= Len(s.head)
    THEN Str(SubSeq(s.head, 1, n))
    ELSE [head |-> s.head,
          pad |-> IF SizeGT(s.pad, Size(n - Len(s.head)))
                  THEN Size(n - Len(s.head)) ELSE s.pad]

\* The place of the first NUL of h at or after i, 0 if there is none (what
\* code that takes a string as NUL-terminated would see).
RECURSIVE NulPos(_, _)
NulPos(h, i) ==
    IF i > Len(h) THEN 0 ELSE IF h[i] = 0 THEN i ELSE NulPos(h, i + 1)

\* ------------------------------------------------------------- UTF-8 decoding
IsCont(b) == b >= 128 /\ b <= 191

\* Number of bytes of the well-formed UTF-8 sequence that starts at b[i]
\* (Unicode table 3-7), or 0 when the bytes at i are not well formed.
Utf8SeqLen(b, i) ==
    LET n  == Len(b)
        b0 == b[i]
        c1 == IF i + 1 <= n THEN b[i + 1] ELSE 0
        c2 == IF i + 2 <= n THEN b[i + 2] ELSE 0
        c3 == IF i + 3 <= n THEN b[i + 3] ELSE 0
    IN  IF b0 <= 127 THEN 1
        ELSE IF b0 >= 194 /\ b0 <= 223
             THEN IF IsCont(c1) THEN 2 ELSE 0
        ELSE IF b0 = 224
             THEN IF c1 >= 160 /\ c1 <= 191 /\ IsCont(c2) THEN 3 ELSE 0
        ELSE IF (b0 >= 225 /\ b0 <= 236) \/ b0 = 238 \/ b0 = 239
             THEN IF IsCont(c1) /\ IsCont(c2) THEN 3 ELSE 0
        ELSE IF b0 = 237
             THEN IF c1 >= 128 /\ c1 <= 159 /\ IsCont(c2) THEN 3 ELSE 0
        ELSE IF b0 = 240
             THEN IF c1 >= 144 /\ c1 <= 191 /\ IsCont(c2) /\ IsCont(c3) THEN 4 ELSE 0
        ELSE IF b0 >= 241 /\ b0 <= 243
             THEN IF IsCont(c1) /\ IsCont(c2) /\ IsCont(c3) THEN 4 ELSE 0
        ELSE IF b0 = 244
             THEN IF c1 >= 128 /\ c1 <= 143 /\ IsCont(c2) /\ IsCont(c3) THEN 4 ELSE 0
        ELSE 0

\* The code point of the well-formed k-byte sequence at b[i].
Utf8CodePoint(b, i, k) ==
    CASE k = 1 -> b[i]
      [] k = 2 -> (b[i] - 192) * 64 + (b[i + 1] - 128)
      [] k = 3 -> (b[i] - 224) * 4096 + (b[i + 1] - 128) * 64 + (b[i + 2] - 128)
      [] k = 4 -> (b[i] - 240) * 262144 + (b[i + 1] - 128) * 4096
                  + (b[i + 2] - 128) * 64 + (b[i + 3] - 128)

\* Decoding of the bytes from b[i] on: [ok, cps].  Under strict validation a
\* malformed byte makes the whole result not ok; otherwise it decodes to U+FFFD.
RECURSIVE Utf8Decode(_, _, _)
Utf8Decode(b, i, strict) ==
    IF i > Len(b) THEN [ok |-> TRUE, cps |-> <<>>]
    ELSE LET k == Utf8SeqLen(b, i)
         IN  IF k = 0
             THEN IF strict
                  THEN [ok |-> FALSE, cps |-> <<>>]
                  ELSE LET r == Utf8Decode(b, i + 1, strict)
                       IN  [ok |-> r.ok, cps |-> <<ReplacementChar>> \o r.cps]
             ELSE LET r == Utf8Decode(b, i + k, strict)
                  IN  [ok |-> r.ok, cps |-> <<Utf8CodePoint(b, i, k)>> \o r.cps]

\* ------------------------------------------------------------ UTF-16 decoding
IsHighSurrogate(u) == u >= 55296 /\ u <= 56319
IsLowSurrogate(u) == u >= 56320 /\ u <= 57343

RECURSIVE Utf16Decode(_, _, _)
Utf16Decode(w, i, strict) ==
    IF i > Len(w) THEN [ok |-> TRUE, cps |-> <<>>]
    ELSE IF IsHighSurrogate(w[i]) /\ i + 1 <= Len(w) /\ IsLowSurrogate(w[i + 1])
         THEN LET r == Utf16Decode(w, i + 2, strict)
              IN  [ok |-> r.ok,
                   cps |-> <<65536 + (w[i] - 55296) * 1024 + (w[i + 1] - 56320)>> \o r.cps]
    ELSE IF IsHighSurrogate(w[i]) \/ IsLowSurrogate(w[i])
         THEN IF strict
              THEN [ok |-> FALSE, cps |-> <<>>]
              ELSE LET r == Utf16Decode(w, i + 1, strict)
                   IN  [ok |-> r.ok, cps |-> <<ReplacementChar>> \o r.cps]
    ELSE LET r == Utf16Decode(w, i + 1, strict)
         IN  [ok |-> r.ok, cps |-> <<w[i]>> \o r.cps]

\* ------------------------------------------------------------------ encoding
Utf8EncodeOne(c) ==
    IF c <= 127 THEN <<c>>
    ELSE IF c <= 2047 THEN <<192 + (c \div 64), 128 + (c % 64)>>
    ELSE IF c <= 65535
         THEN <<224 + (c \div 4096), 128 + ((c \div 64) % 64), 128 + (c % 64)>>
    ELSE <<240 + (c \div 262144), 128 + ((c \div 4096) % 64),
           128 + ((c \div 64) % 64), 128 + (c % 64)>>

Utf16EncodeOne(c) ==
    IF c <= 65535 THEN <<c>>
    ELSE <<55296 + ((c - 65536) \div 1024), 56320 + ((c - 65536) % 1024)>>

RECURSIVE Utf8Encode(_)
Utf8Encode(cps) ==
    IF cps = <<>> THEN <<>> ELSE Utf8EncodeOne(Head(cps)) \o Utf8Encode(Tail(cps))

RECURSIVE Utf16Encode(_)
Utf16Encode(cps) ==
    IF cps = <<>> THEN <<>> ELSE Utf16EncodeOne(Head(cps)) \o Utf16Encode(Tail(cps))

\* ------------------------------------------------------- the Win32 transcoder
\* What one transcoder call does: ret is the value returned, err the last-error
\* code it sets (meaningful when ret = 0) and out the elements it stored in the
\* destination.  full is the whole conversion of the first n source elements.
TranscoderResult(flagsOk, n, dec, full, dstNull, dstSize) ==
    IF ~flagsOk
    THEN [ret |-> 0, err |-> ERROR_INVALID_FLAGS, out |-> EmptyStr]
    ELSE IF n <= 0 \/ dstSize < 0 \/ (dstNull /\ dstSize # 0)
    THEN [ret |-> 0, err |-> ERROR_INVALID_PARAMETER, out |-> EmptyStr]
    ELSE IF ~dec.ok
    THEN [ret |-> 0, err |-> ERROR_NO_UNICODE_TRANSLATION, out |-> EmptyStr]
    ELSE IF dstSize = 0
    THEN [ret |-> IntLength(full), err |-> ERROR_SUCCESS, out |-> EmptyStr]
    ELSE IF dstSize < IntLength(full)
    THEN [ret |-> 0, err |-> ERROR_INSUFFICIENT_BUFFER, out |-> Prefix(full, dstSize)]
    ELSE [ret |-> IntLength(full), err |-> ERROR_SUCCESS, out |-> full]

\* ::WideCharToMultiByte(CP_UTF8, flags, src, cchWideChar, dst, cbMultiByte, 0, 0).
WideCharToMultiByte(flags, src, cchWideChar, dstNull, cbMultiByte) ==
    LET in  == Prefix(src, IF cchWideChar > 0 THEN cchWideChar ELSE 0)
        dec == Utf16Decode(in.head, 1, flags = WC_ERR_INVALID_CHARS)
        full == [head |-> Utf8Encode(dec.cps), pad |-> in.pad]
    IN  TranscoderResult(flags \in {0, WC_ERR_INVALID_CHARS}, cchWideChar, dec, full,
                         dstNull, cbMultiByte)

\* ::MultiByteToWideChar(CP_UTF8, flags, src, cbMultiByte, dst, cchWideChar).
MultiByteToWideChar(flags, src, cbMultiByte, dstNull, cchWideChar) ==
    LET in  == Prefix(src, IF cbMultiByte > 0 THEN cbMultiByte ELSE 0)
        dec == Utf8Decode(in.head, 1, flags = MB_ERR_INVALID_CHARS)
        full == [head |-> Utf16Encode(dec.cps), pad |-> in.pad]
    IN  TranscoderResult(flags \in {0, MB_ERR_INVALID_CHARS}, cbMultiByte, dec, full,
                         dstNull, cchWideChar)

\* The error codes a failing transcoder call can leave behind.
TranscoderErrors ==
    {ERROR_INVALID_PARAMETER, ERROR_INSUFFICIENT_BUFFER, ERROR_INVALID_FLAGS,
     ERROR_NO_UNICODE_TRANSLATION}

\* The outcomes of a call whose documented outcome is r: r itself, and, for a
\* transcoder that can fail on any call, a failure with any error code that
\* leaves any proper prefix of the conversion in the destination.
Outcomes(mode, r) ==
    {r} \cup
    IF mode = "faulty"
    THEN {[ret |-> 0, err |-> e, out |-> Prefix(r.out, k)] :
              e \in TranscoderErrors,
              k \in 0..(IF IntLength(r.out) > 0 THEN IntLength(r.out) - 1 ELSE 0)}
    ELSE {}

\* ---------------------------------------------------------------- the program
Threads == 1..NThreads

VARIABLES
    fn,           \* fn[t]: the function thread t is in, or "none"
    arg,          \* arg[t]: its argument (utf16 of ToUtf8, utf8 of ToUtf16)
    pc,           \* pc[t]: where in the function the thread is
    utf8Length,   \* the local utf8Length of the call
    utf16Length,  \* the local utf16Length of the call
    result,       \* the local result of the call
    buf,          \* buf[b]: the destination string object in storage b
    lastError,    \* lastError[t]: the thread's Win32 last-error code
    calls,        \* calls[t]: the transcoder calls the current call has made
    outcome,      \* outcome[t]: the value returned or the exception thrown
    orig,         \* orig[t]: the first argument of the caller's round trip
    stage,        \* stage[t]: 1 in the first conversion, 2 in the one back
    platform      \* "conforming": the transcoder does what is documented

vars == <<fn, arg, pc, utf8Length, utf16Length, result, buf, lastError, calls,
          outcome, orig, stage, platform>>

Pending == [kind |-> "pending", value |-> EmptyStr, errorCode |-> 0,
            conversionType |-> "none"]
Returned(v) == [kind |-> "returned", value |-> v, errorCode |-> 0,
                conversionType |-> "none"]
\* UnicodeConversionException(errorCode, conversionType, message).
UnicodeConversionException(errorCode, conversionType) ==
    [kind |-> "UnicodeConversionException", value |-> EmptyStr,
     errorCode |-> errorCode, conversionType |-> conversionType]
\* std::overflow_error, thrown by SafeSizeToInt.
OverflowError == [kind |-> "overflow_error", value |-> EmptyStr, errorCode |-> 0,
                  conversionType |-> "none"]

NoBuffer == [size |-> 0, data |-> EmptyStr, fill |-> Blank]

\* GetLastError as read too late, after another call reset the code.
GetLastErrorStale(t) == ERROR_SUCCESS
\* ::GetLastError() on thread t.
GetLastError(t) == lastError[t]

\* BufferOf with one static destination shared by all calls.
BufferShared(t) == 1
\* The storage of the destination string of thread t's call: a local object of
\* the call, so one per call in progress.
BufferOf(t) == t

\* The elements of a destination string: what was stored, then its fill.
Contents(b) ==
    IF IntLength(b.data) >= b.size THEN b.data
    ELSE Str(b.data.head \o Repeat(b.fill, b.size - IntLength(b.data)))

\* CString::IsEmpty / std::string::empty, CString::GetLength / std::string::length.
\* IsEmpty with the test for the empty string left out.
IsEmptyNever(s) == FALSE
\* CString::GetLength returns an int, std::string::length a size_t.
IsEmpty(s) == Length(s) = Size(0)
GetLength(s) == StaticCastInt(Length(s))
\* StdLength as strlen(utf8.c_str()): the length up to the first NUL.
StdLengthStrlen(s) ==
    LET z == NulPos(s.head, 1) IN IF z > 0 THEN Size(z - 1) ELSE Length(s)
StdLength(s) == Length(s)

\* SafeSizeToInt as a bare static_cast<int>, without the range check.
SafeSizeToIntUnchecked(sizeValue) ==
    [throws |-> FALSE, value |-> StaticCastInt(sizeValue)]
\* Details::SafeSizeToInt: throws std::overflow_error, or returns value.
SafeSizeToInt(sizeValue) ==
    IF SizeGT(sizeValue, Size(kIntMax))
    THEN [throws |-> TRUE, value |-> 0]
    ELSE [throws |-> FALSE, value |-> StaticCastInt(sizeValue)]

\* kFlags with the strict-validation flag left out.
ToUtf8_kFlagsLenient == 0 * WC_ERR_INVALID_CHARS
ToUtf16_kFlagsLenient == 0 * MB_ERR_INVALID_CHARS
\* The flags of the two functions (constexpr DWORD kFlags).
ToUtf8_kFlags == WC_ERR_INVALID_CHARS
ToUtf16_kFlags == MB_ERR_INVALID_CHARS

\* NewStdString with room for a terminating NUL added to the length.
NewStdStringPlusOne(n) == [size |-> n + 1, data |-> EmptyStr, fill |-> Blank]
\* std::string utf8(utf8Length, ' ').
NewStdString(n) == [size |-> n, data |-> EmptyStr, fill |-> Blank]
\* CString utf16; utf16.GetBuffer(utf16Length): room for utf16Length wchar_ts.
GetBuffer(n) == [size |-> n, data |-> EmptyStr, fill |-> Indeterminate]
\* ReleaseBuffer() without the length: the string ends at the first NUL.
ReleaseBufferToNul(b, n) ==
    LET c == Contents(b)
        z == NulPos(c.head, 1)
    IN  IF z > 0 THEN Prefix(c, z - 1) ELSE Prefix(c, n)
\* utf16.ReleaseBuffer(n): the string is the first n elements of the buffer.
ReleaseBuffer(b, n) == Prefix(Contents(b), n)

CallRecord(f, flags, src, srcLen, dstNull, dstSize, r) ==
    [fn |-> f, flags |-> flags, src |-> src, srcLen |-> srcLen, dstNull |-> dstNull,
     dstSize |-> dstSize, ret |-> r.ret, err |-> r.err, stored |-> IntLength(r.out)]

\* The transcoder returned r: a failing call sets the thread's last error.
SetLastError(t, r) ==
    lastError' = IF r.ret = 0 THEN [lastError EXCEPT ![t] = r.err] ELSE lastError

\* Leaving the function: by return or by exception.  The destination string
\* object of the call, if any, is no longer the call's.
Leave(t, o) ==
    /\ outcome' = [outcome EXCEPT ![t] = o]
    /\ pc' = [pc EXCEPT ![t] = "done"]
    /\ buf' = [buf EXCEPT ![BufferOf(t)] = NoBuffer]

\* Failed testing for a negative value instead of zero.
FailedNegative(ret) == ret < 0
\* if (utf8Length == 0), if (result == 0): the transcoder reported failure.
Failed(ret) == ret = 0

\* ------------------------------------------------------------------- ToUtf8
\* if (utf16.IsEmpty()) return std::string{};  utf16Length = utf16.GetLength();
ToUtf8_Entry(t) ==
    /\ fn[t] = "ToUtf8" /\ pc[t] = "entry"
    /\ IF IsEmpty(arg[t])
       THEN /\ Leave(t, Returned(EmptyStr))
            /\ UNCHANGED utf16Length
       ELSE /\ utf16Length' = [utf16Length EXCEPT ![t] = GetLength(arg[t])]
            /\ pc' = [pc EXCEPT ![t] = "sizing"]
            /\ UNCHANGED <<outcome, buf>>
    /\ UNCHANGED <<fn, arg, utf8Length, result, lastError, calls, orig, stage,
                   platform>>

\* utf8Length = ::WideCharToMultiByte(CP_UTF8, kFlags, utf16, utf16Length,
\*                                    nullptr, 0, nullptr, nullptr);
ToUtf8_SizingPass(t) ==
    /\ fn[t] = "ToUtf8" /\ pc[t] = "sizing"
    /\ \E r \in Outcomes(platform,
                         WideCharToMultiByte(ToUtf8_kFlags, arg[t], utf16Length[t], TRUE, 0)) :
          /\ utf8Length' = [utf8Length EXCEPT ![t] = r.ret]
          /\ SetLastError(t, r)
          /\ calls' = [calls EXCEPT ![t] = Append(@,
                 CallRecord("WideCharToMultiByte", ToUtf8_kFlags, arg[t], utf16Length[t],
                            TRUE, 0, r))]
    /\ pc' = [pc EXCEPT ![t] = "sized"]
    /\ UNCHANGED <<fn, arg, utf16Length, result, buf, outcome, orig, stage, platform>>

\* if (utf8Length == 0) throw ...(::GetLastError(), FromUtf16ToUtf8, ...);
\* std::string utf8(utf8Length, ' ');
ToUtf8_CheckSizing(t) ==
    /\ fn[t] = "ToUtf8" /\ pc[t] = "sized"
    /\ IF Failed(utf8Length[t])
       THEN Leave(t, UnicodeConversionException(GetLastError(t), "FromUtf16ToUtf8"))
       ELSE /\ buf' = [buf EXCEPT ![BufferOf(t)] = NewStdString(utf8Length[t])]
            /\ pc' = [pc EXCEPT ![t] = "converting"]
            /\ UNCHANGED outcome
    /\ UNCHANGED <<fn, arg, utf8Length, utf16Length, result, lastError, calls, orig,
                   stage, platform>>

\* result = ::WideCharToMultiByte(CP_UTF8, kFlags, utf16, utf16Length,
\*                                utf8Buffer, utf8Length, nullptr, nullptr);
ToUtf8_ConversionPass(t) ==
    /\ fn[t] = "ToUtf8" /\ pc[t] = "converting"
    /\ \E r \in Outcomes(platform,
                         WideCharToMultiByte(ToUtf8_kFlags, arg[t], utf16Length[t], FALSE,
                                             utf8Length[t])) :
          /\ result' = [result EXCEPT ![t] = r.ret]
          /\ buf' = [buf EXCEPT ![BufferOf(t)].data = r.out]
          /\ SetLastError(t, r)
          /\ calls' = [calls EXCEPT ![t] = Append(@,
                 CallRecord("WideCharToMultiByte", ToUtf8_kFlags, arg[t], utf16Length[t],
                            FALSE, utf8Length[t], r))]
    /\ pc' = [pc EXCEPT ![t] = "converted"]
    /\ UNCHANGED <<fn, arg, utf8Length, utf16Length, outcome, orig, stage, platform>>

\* if (result == 0) throw ...(::GetLastError(), FromUtf16ToUtf8, ...);
\* return utf8;
ToUtf8_CheckConversion(t) ==
    /\ fn[t] = "ToUtf8" /\ pc[t] = "converted"
    /\ IF Failed(result[t])
       THEN Leave(t, UnicodeConversionException(GetLastError(t), "FromUtf16ToUtf8"))
       ELSE Leave(t, Returned(Contents(buf[BufferOf(t)])))
    /\ UNCHANGED <<fn, arg, utf8Length, utf16Length, result, lastError, calls,
                   orig, stage, platform>>

\* ------------------------------------------------------------------ ToUtf16
\* if (utf8.empty()) return CString{};
\* utf8Length = Details::SafeSizeToInt(utf8.length());
ToUtf16_Entry(t) ==
    /\ fn[t] = "ToUtf16" /\ pc[t] = "entry"
    /\ IF IsEmpty(arg[t])
       THEN /\ Leave(t, Returned(EmptyStr))
            /\ UNCHANGED utf8Length
       ELSE IF SafeSizeToInt(StdLength(arg[t])).throws
       THEN /\ Leave(t, OverflowError)
            /\ UNCHANGED utf8Length
       ELSE /\ utf8Length' = [utf8Length EXCEPT ![t] = SafeSizeToInt(StdLength(arg[t])).value]
            /\ pc' = [pc EXCEPT ![t] = "sizing"]
            /\ UNCHANGED <<outcome, buf>>
    /\ UNCHANGED <<fn, arg, utf16Length, result, lastError, calls, orig, stage,
                   platform>>

\* utf16Length = ::MultiByteToWideChar(CP_UTF8, kFlags, utf8.data(), utf8Length,
\*                                     nullptr, 0);
ToUtf16_SizingPass(t) ==
    /\ fn[t] = "ToUtf16" /\ pc[t] = "sizing"
    /\ \E r \in Outcomes(platform,
                         MultiByteToWideChar(ToUtf16_kFlags, arg[t], utf8Length[t], TRUE, 0)) :
          /\ utf16Length' = [utf16Length EXCEPT ![t] = r.ret]
          /\ SetLastError(t, r)
          /\ calls' = [calls EXCEPT ![t] = Append(@,
                 CallRecord("MultiByteToWideChar", ToUtf16_kFlags, arg[t], utf8Length[t],
                            TRUE, 0, r))]
    /\ pc' = [pc EXCEPT ![t] = "sized"]
    /\ UNCHANGED <<fn, arg, utf8Length, result, buf, outcome, orig, stage, platform>>

\* if (utf16Length == 0) throw ...(::GetLastError(), FromUtf8ToUtf16, ...);
\* CString utf16;  utf16Buffer = utf16.GetBuffer(utf16Length);
ToUtf16_CheckSizing(t) ==
    /\ fn[t] = "ToUtf16" /\ pc[t] = "sized"
    /\ IF Failed(utf16Length[t])
       THEN Leave(t, UnicodeConversionException(GetLastError(t), "FromUtf8ToUtf16"))
       ELSE /\ buf' = [buf EXCEPT ![BufferOf(t)] = GetBuffer(utf16Length[t])]
            /\ pc' = [pc EXCEPT ![t] = "converting"]
            /\ UNCHANGED outcome
    /\ UNCHANGED <<fn, arg, utf8Length, utf16Length, result, lastError, calls, orig,
                   stage, platform>>

\* result = ::MultiByteToWideChar(CP_UTF8, kFlags, utf8.data(), utf8Length,
\*                                utf16Buffer, utf16Length);
ToUtf16_ConversionPass(t) ==
    /\ fn[t] = "ToUtf16" /\ pc[t] = "converting"
    /\ \E r \in Outcomes(platform,
                         MultiByteToWideChar(ToUtf16_kFlags, arg[t], utf8Length[t], FALSE,
                                             utf16Length[t])) :
          /\ result' = [result EXCEPT ![t] = r.ret]
          /\ buf' = [buf EXCEPT ![BufferOf(t)].data = r.out]
          /\ SetLastError(t, r)
          /\ calls' = [calls EXCEPT ![t] = Append(@,
                 CallRecord("MultiByteToWideChar", ToUtf16_kFlags, arg[t], utf8Length[t],
                            FALSE, utf16Length[t], r))]
    /\ pc' = [pc EXCEPT ![t] = "converted"]
    /\ UNCHANGED <<fn, arg, utf8Length, utf16Length, outcome, orig, stage, platform>>

\* if (result == 0) throw ...(::GetLastError(), FromUtf8ToUtf16, ...);
\* utf16.ReleaseBuffer(utf16Length);  return utf16;
ToUtf16_CheckConversion(t) ==
    /\ fn[t] = "ToUtf16" /\ pc[t] = "converted"
    /\ IF Failed(result[t])
       THEN Leave(t, UnicodeConversionException(GetLastError(t), "FromUtf8ToUtf16"))
       ELSE Leave(t, Returned(ReleaseBuffer(buf[BufferOf(t)], utf16Length[t])))
    /\ UNCHANGED <<fn, arg, utf8Length, utf16Length, result, lastError, calls,
                   orig, stage, platform>>

\* ------------------------------------------------------------------ callers
\* The other converter: the caller of a round trip passes the value one
\* converter returned to the other.
Opposite(f) == IF f = "ToUtf8" THEN "ToUtf16" ELSE "ToUtf8"

\* Thread t, whose first conversion returned, converts the result back.
RoundTrip(t) ==
    /\ pc[t] = "done" /\ stage[t] = 1 /\ outcome[t].kind = "returned"
    /\ fn' = [fn EXCEPT ![t] = Opposite(fn[t])]
    /\ arg' = [arg EXCEPT ![t] = outcome[t].value]
    /\ pc' = [pc EXCEPT ![t] = "entry"]
    /\ stage' = [stage EXCEPT ![t] = 2]
    /\ utf8Length' = [utf8Length EXCEPT ![t] = 0]
    /\ utf16Length' = [utf16Length EXCEPT ![t] = 0]
    /\ result' = [result EXCEPT ![t] = 0]
    /\ calls' = [calls EXCEPT ![t] = <<>>]
    /\ outcome' = [outcome EXCEPT ![t] = Pending]
    /\ UNCHANGED <<buf, lastError, orig, platform>>

\* ------------------------------------------------------------------- inputs
SeqsUpTo(S, n) == UNION {[1..k -> S] : k \in 0..n}

\* Bytes: NUL, 'a', the lead bytes C3, E2, F0 and the continuation bytes
\* A9, 9F, 80.  Units: NUL, 'a', U+00E9, U+20AC, the surrogates D83D and DE00,
\* and U+FFFF.
Bytes == {0, 97, 195, 169, 226, 240, 159, 128}
Units == {0, 97, 233, 8364, 55357, 56832, 65535}

CafeUtf8 == <<99, 97, 102, 195, 169>>
CafeUtf16 == <<99, 97, 102, 233>>
EmojiUtf8 == <<240, 159, 152, 128>>
EmojiUtf16 == <<55357, 56832>>

\* Well-formed and malformed sequences at the edges of the encoding forms.
EdgeUtf8 ==
    {CafeUtf8, EmojiUtf8,
     <<226, 130, 172>>,           \* U+20AC
     <<223, 191>>,                \* U+07FF
     <<224, 160, 128>>,           \* U+0800
     <<237, 159, 191>>,           \* U+D7FF
     <<238, 128, 128>>,           \* U+E000
     <<239, 191, 191>>,           \* U+FFFF
     <<240, 144, 128, 128>>,      \* U+10000
     <<244, 143, 191, 191>>,      \* U+10FFFF
     <<97, 0, 195, 169, 0>>,      \* embedded and trailing NUL
     <<192, 128>>,                \* overlong NUL
     <<224, 159, 191>>,           \* overlong U+07FF
     <<237, 160, 128>>,           \* the surrogate D800
     <<240, 143, 191, 191>>,      \* overlong U+FFFF
     <<244, 144, 128, 128>>,      \* above U+10FFFF
     <<245, 128, 128, 128>>, <<255>>,
     <<99, 128, 97>>,             \* a lone continuation byte
     <<99, 97, 102, 195>>}        \* a truncated sequence
EdgeUtf16 ==
    {CafeUtf16, EmojiUtf16,
     <<55295>>, <<57344>>,        \* U+D7FF, U+E000
     <<55296, 56320>>,            \* U+10000
     <<56319, 57343>>,            \* U+10FFFF
     <<97, 0, 233, 0>>,           \* embedded and trailing NUL
     <<99, 55357>>,               \* a high surrogate at the end
     <<55357, 97>>,               \* a high surrogate before a letter
     <<56832, 55357>>,            \* the pair reversed
     <<55357, 55357, 56832>>,     \* a high surrogate before a pair
     <<97, 57343>>}               \* a lone low surrogate

\* std::strings longer than, or exactly as long as, INT_MAX.  One of exactly
\* INT_MAX elements is malformed, so that no destination of that size is needed.
LongUtf8 ==
    {[head |-> h, pad |-> p] :
        h \in {<<97>>, <<128>>, <<195, 169>>},
        p \in {[hi |-> 0, lo |-> kIntMax], [hi |-> 1, lo |-> 0], [hi |-> 1, lo |-> kIntMax],
               [hi |-> 2, lo |-> 0]}}
    \cup {[head |-> <<128>>, pad |-> Size(kIntMax - 1)]}

Utf8Inputs(n) == {Str(h) : h \in SeqsUpTo(Bytes, n) \cup EdgeUtf8} \cup LongUtf8
Utf16Inputs(n) == {Str(h) : h \in SeqsUpTo(Units, n) \cup EdgeUtf16}

\* A call in progress: the function and its argument.
Call(f, a) == [fn |-> f, arg |-> a]
Calls(n) ==
    {Call("ToUtf8", a) : a \in Utf16Inputs(n)} \cup {Call("ToUtf16", a) : a \in Utf8Inputs(n)}
NoCall == Call("none", EmptyStr)

\* The calls of the concurrency specification.
ConcCalls ==
    {Call("ToUtf8", Str(h)) : h \in {<<>>, CafeUtf16, EmojiUtf16, <<99, 55357>>}}
    \cup {Call("ToUtf16", Str(h)) : h \in {<<>>, CafeUtf8, EmojiUtf8, <<99, 128, 97>>}}
    \cup {Call("ToUtf16", [head |-> <<97>>, pad |-> [hi |-> 1, lo |-> 0]])}

\* The state in which each thread t is about to make the call c[t].
Start(c, mode) ==
    /\ fn = [t \in Threads |-> c[t].fn]
    /\ arg = [t \in Threads |-> c[t].arg]
    /\ pc = [t \in Threads |-> IF c[t].fn = "none" THEN "idle" ELSE "entry"]
    /\ utf8Length = [t \in Threads |-> 0]
    /\ utf16Length = [t \in Threads |-> 0]
    /\ result = [t \in Threads |-> 0]
    /\ buf = [b \in Threads |-> NoBuffer]
    /\ lastError = [t \in Threads |-> ERROR_SUCCESS]
    /\ calls = [t \in Threads |-> <<>>]
    /\ outcome = [t \in Threads |-> Pending]
    /\ orig = [t \in Threads |-> c[t].arg]
    /\ stage = [t \in Threads |-> 1]
    /\ platform = mode

\* One thread converts an input and converts the result back.
Init ==
    \E c \in Calls(MaxLen) :
        Start([t \in Threads |-> IF t = 1 THEN c ELSE NoCall], "conforming")

\* The same with a transcoder that can fail on any call.
InitFault ==
    \E c \in Calls(MaxLenSmall) :
        Start([t \in Threads |-> IF t = 1 THEN c ELSE NoCall], "faulty")

\* Every thread makes one call.
InitConc == \E c \in [Threads -> ConcCalls] : Start(c, "conforming")

Step(t) ==
    \/ ToUtf8_Entry(t)
    \/ ToUtf8_SizingPass(t)
    \/ ToUtf8_CheckSizing(t)
    \/ ToUtf8_ConversionPass(t)
    \/ ToUtf8_CheckConversion(t)
    \/ ToUtf16_Entry(t)
    \/ ToUtf16_SizingPass(t)
    \/ ToUtf16_CheckSizing(t)
    \/ ToUtf16_ConversionPass(t)
    \/ ToUtf16_CheckConversion(t)

Next == \E t \in Threads : Step(t) \/ RoundTrip(t)
NextConc == \E t \in Threads : Step(t)

Spec == Init /\ [][Next]_vars
SpecFault == InitFault /\ [][Next]_vars
SpecConc == InitConc /\ [][NextConc]_vars

\* ---------------------------------------------------------------- properties
\* The function of thread t's first call, whose argument is orig[t].
FirstFn(t) == IF stage[t] = 1 THEN fn[t] ELSE Opposite(fn[t])
\* a is well-formed input of f; the code points it encodes; its conversion.
WellFormed(f, a) ==
    IF f = "ToUtf16" THEN Utf8Decode(a.head, 1, TRUE).ok ELSE Utf16Decode(a.head, 1, TRUE).ok
\* (of the head of a: the padding is the same letters in either form)
CodePoints(f, a) ==
    IF f = "ToUtf16" THEN Utf8Decode(a.head, 1, TRUE).cps
    ELSE Utf16Decode(a.head, 1, TRUE).cps
Converted(f, a) ==
    IF f = "ToUtf16"
    THEN [head |-> Utf16Encode(Utf8Decode(a.head, 1, TRUE).cps), pad |-> a.pad]
    ELSE [head |-> Utf8Encode(Utf16Decode(a.head, 1, TRUE).cps), pad |-> a.pad]
\* The length of a fits an int.
FitsInt(a) == ~SizeGT(Length(a), Size(kIntMax))
ConversionTypeOf(f) == IF f = "ToUtf16" THEN "FromUtf8ToUtf16" ELSE "FromUtf16ToUtf8"
Done(t) == fn[t] # "none" /\ pc[t] = "done"

\* Thread t's call has succeeded, and the second call of a round trip has
\* returned the argument of the first.
CameBack(t) ==
    /\ outcome[t].kind = "returned"
    /\ stage[t] = 2 => outcome[t].value = orig[t]

\* C1 as stated: for every well-formed UTF-8 s, ToUtf8(ToUtf16(s)) succeeds and
\* equals s, and for every well-formed UTF-16 w, ToUtf16(ToUtf8(w)) succeeds and
\* equals w.
C1_RoundTripAnyLength ==
    \A t \in Threads :
        (Done(t) /\ WellFormed(FirstFn(t), orig[t])) => CameBack(t)

\* C1 (amended): for every well-formed UTF-8 s of at most INT_MAX bytes,
\* ToUtf8(ToUtf16(s)) succeeds and equals s, and for every well-formed UTF-16 w,
\* ToUtf16(ToUtf8(w)) succeeds and equals w.
C1_RoundTrip ==
    \A t \in Threads :
        (Done(t) /\ WellFormed(FirstFn(t), orig[t]) /\ FitsInt(orig[t])) => CameBack(t)

\* A round trip of a string with non-ASCII characters and NULs has come back.
C1_Witness ==
    \E t \in Threads :
        /\ Done(t) /\ stage[t] = 2 /\ outcome[t].kind = "returned"
        /\ orig[t] = Str(<<97, 0, 195, 169, 0>>) /\ outcome[t].value = orig[t]

\* The number of UTF-16 units of the code points cps: one up to U+FFFF, two above.
RECURSIVE UnitCount(_)
UnitCount(cps) ==
    IF cps = <<>> THEN 0
    ELSE (IF Head(cps) <= 65535 THEN 1 ELSE 2) + UnitCount(Tail(cps))

\* Thread t's ToUtf16 call on orig[t] has returned the UTF-16 encoding of the
\* code points of orig[t], one unit per code point up to U+FFFF and two above,
\* and the ToUtf8 call on that result has returned orig[t].
EncodedAndBack(t) ==
    /\ outcome[t].kind = "returned"
    /\ stage[t] = 1 =>
         /\ WellFormed("ToUtf8", outcome[t].value)
         /\ CodePoints("ToUtf8", outcome[t].value) = CodePoints("ToUtf16", orig[t])
         /\ outcome[t].value.pad = orig[t].pad
         /\ Len(outcome[t].value.head) = UnitCount(CodePoints("ToUtf16", orig[t]))
         /\ orig[t] = Str(CafeUtf8) => outcome[t].value = Str(CafeUtf16)
         /\ orig[t] = Str(EmojiUtf8) => outcome[t].value = Str(EmojiUtf16)
    /\ stage[t] = 2 => outcome[t].value = orig[t]

\* C2 as stated: for every well-formed UTF-8 input ToUtf16 returns the UTF-16
\* encoding of the same code points, one unit per code point up to U+FFFF and a
\* surrogate pair above (63 61 66 C3 A9 gives 0063 0061 0066 00E9, F0 9F 98 80
\* gives D83D DE00), and ToUtf8 of the result is the input.
C2_EncodingAnyLength ==
    \A t \in Threads :
        (Done(t) /\ FirstFn(t) = "ToUtf16" /\ WellFormed("ToUtf16", orig[t]))
            => EncodedAndBack(t)

\* C2 (amended): the same for every well-formed UTF-8 input of at most INT_MAX
\* bytes.
C2_Encoding ==
    \A t \in Threads :
        (Done(t) /\ FirstFn(t) = "ToUtf16" /\ WellFormed("ToUtf16", orig[t])
                 /\ FitsInt(orig[t]))
            => EncodedAndBack(t)

\* ToUtf16 has returned D83D DE00 for F0 9F 98 80.
C2_Witness ==
    \E t \in Threads :
        /\ Done(t) /\ stage[t] = 1 /\ fn[t] = "ToUtf16" /\ arg[t] = Str(EmojiUtf8)
        /\ outcome[t] = Returned(Str(EmojiUtf16))

\* What C3 and C4 say of a call that has ended on malformed input: it threw
\* UnicodeConversionException with the function's conversion type, and no
\* string came back.
Rejected(t) ==
    /\ outcome[t].kind = "UnicodeConversionException"
    /\ outcome[t].conversionType = ConversionTypeOf(fn[t])
    /\ outcome[t].value = EmptyStr

\* C3 as stated: for every non-empty byte sequence that is not well-formed
\* UTF-8, ToUtf16 fails with a UnicodeConversionException of type
\* FromUtf8ToUtf16 and returns nothing.
C3_MalformedUtf8AnyLength ==
    \A t \in Threads :
        (Done(t) /\ fn[t] = "ToUtf16" /\ Length(arg[t]) # Size(0)
                 /\ ~WellFormed("ToUtf16", arg[t]))
            => Rejected(t)

\* C3 (amended): for every non-empty byte sequence of at most INT_MAX bytes that
\* is not well-formed UTF-8, ToUtf16 fails with a UnicodeConversionException of
\* type FromUtf8ToUtf16 and returns nothing (no U+FFFD is substituted).
C3_MalformedUtf8 ==
    \A t \in Threads :
        (Done(t) /\ fn[t] = "ToUtf16" /\ Length(arg[t]) # Size(0)
                 /\ ~WellFormed("ToUtf16", arg[t]) /\ FitsInt(arg[t]))
            => Rejected(t)

\* ToUtf16 has rejected a string with a lone continuation byte.
C3_Witness ==
    \E t \in Threads :
        /\ Done(t) /\ fn[t] = "ToUtf16" /\ arg[t] = Str(<<99, 128, 97>>)
        /\ outcome[t] = UnicodeConversionException(ERROR_NO_UNICODE_TRANSLATION,
                                                   "FromUtf8ToUtf16")

\* C4: for every non-empty UTF-16 sequence with an unpaired surrogate, ToUtf8
\* fails with a UnicodeConversionException of type FromUtf16ToUtf8 and returns
\* nothing (no U+FFFD is substituted).
C4_MalformedUtf16 ==
    \A t \in Threads :
        (Done(t) /\ fn[t] = "ToUtf8" /\ Length(arg[t]) # Size(0)
                 /\ ~WellFormed("ToUtf8", arg[t]))
            => Rejected(t)

\* ToUtf8 has rejected a string that ends with a high surrogate.
C4_Witness ==
    \E t \in Threads :
        /\ Done(t) /\ fn[t] = "ToUtf8" /\ arg[t] = Str(<<99, 55357>>)
        /\ outcome[t] = UnicodeConversionException(ERROR_NO_UNICODE_TRANSLATION,
                                                   "FromUtf16ToUtf8")

\* C5: on the empty string both functions return the empty string without
\* error, and the call makes no transcoder call.
C5_EmptyInput ==
    \A t \in Threads :
        (fn[t] # "none" /\ Length(arg[t]) = Size(0))
            => /\ calls[t] = <<>>
               /\ pc[t] \in {"entry", "done"}
               /\ pc[t] = "done" => outcome[t] = Returned(EmptyStr)

\* Both functions have returned the empty string: ToUtf16 and then ToUtf8, or
\* the other way round.
C5_Witness ==
    \E t \in Threads :
        /\ Done(t) /\ stage[t] = 2 /\ orig[t] = EmptyStr /\ arg[t] = EmptyStr
        /\ outcome[t] = Returned(EmptyStr) /\ calls[t] = <<>>

\* Sizes at and around the limits of an int.
EdgeSizes ==
    {Size(n) : n \in {0, 1, MaxLen, kIntMax - 1, kIntMax}}
    \cup {[hi |-> h, lo |-> l] : h \in 1..2, l \in {0, 1, kIntMax}}

\* C6: a ToUtf16 argument longer than INT_MAX makes the call throw
\* std::overflow_error (not UnicodeConversionException) with no transcoder call
\* made; SafeSizeToInt returns every size up to INT_MAX unchanged, and the
\* length passed to the transcoder is the argument's real length.
C6_LengthOverflow ==
    /\ \A t \in Threads :
          fn[t] = "ToUtf16" =>
              IF FitsInt(arg[t])
              THEN /\ \A i \in 1..Len(calls[t]) : Size(calls[t][i].srcLen) = Length(arg[t])
                   /\ outcome[t].kind # "overflow_error"
              ELSE /\ calls[t] = <<>>
                   /\ pc[t] \in {"entry", "done"}
                   /\ pc[t] = "done" => outcome[t] = OverflowError
    /\ \A v \in EdgeSizes :
          IF SizeGT(v, Size(kIntMax))
          THEN SafeSizeToInt(v).throws
          ELSE SafeSizeToInt(v) = [throws |-> FALSE, value |-> v.lo]

\* ToUtf16 has thrown std::overflow_error on a string of 2^31 bytes.
C6_Witness ==
    \E t \in Threads :
        /\ Done(t) /\ fn[t] = "ToUtf16"
        /\ Length(arg[t]) = [hi |-> 1, lo |-> 0]
        /\ outcome[t] = OverflowError /\ calls[t] = <<>>

\* The transcoder has been called with a length of exactly INT_MAX.
C6_WitnessIntMax ==
    \E t \in Threads :
        /\ fn[t] = "ToUtf16" /\ Len(calls[t]) = 1 /\ calls[t][1].srcLen = kIntMax

\* C7: on every successful call with non-empty input the returned string is
\* exactly as long as the sizing pass reported, and the destination handed to
\* the conversion pass has exactly that size.
C7_ExactLength ==
    \A t \in Threads :
        (fn[t] # "none" /\ Length(arg[t]) # Size(0)) =>
            /\ pc[t] \in {"converting", "converted"} =>
                   /\ Len(calls[t]) >= 1
                   /\ buf[BufferOf(t)].size = calls[t][1].ret
            /\ Len(calls[t]) = 2 => calls[t][2].dstSize = calls[t][1].ret
            /\ (pc[t] = "done" /\ outcome[t].kind = "returned") =>
                   /\ Len(calls[t]) = 2
                   /\ Length(outcome[t].value) = Size(calls[t][1].ret)
                   /\ calls[t][2].stored = calls[t][1].ret

\* ToUtf8 has returned the five bytes the sizing pass announced.
C7_Witness ==
    \E t \in Threads :
        /\ Done(t) /\ fn[t] = "ToUtf8" /\ arg[t] = Str(CafeUtf16)
        /\ Len(calls[t]) = 2 /\ calls[t][1].ret = Len(CafeUtf8)
        /\ outcome[t] = Returned(Str(CafeUtf8))

\* C8: every call ends with the full conversion of the whole input returned,
\* or with an exception and nothing returned; when the sizing pass succeeds
\* and the conversion pass reports failure the call throws
\* UnicodeConversionException and the partly filled buffer is not returned.
C8_AllOrNothing ==
    \A t \in Threads :
        Done(t) =>
            /\ \/ /\ outcome[t] = Returned(Converted(fn[t], arg[t]))
                  /\ WellFormed(fn[t], arg[t])
               \/ /\ outcome[t].kind \in {"UnicodeConversionException", "overflow_error"}
                  /\ outcome[t].value = EmptyStr
            /\ (Len(calls[t]) = 2 /\ calls[t][2].ret = 0) =>
                   outcome[t] = UnicodeConversionException(calls[t][2].err,
                                                           ConversionTypeOf(fn[t]))

\* A conversion pass has failed after storing a part of the result, and the
\* call has thrown.
C8_Witness ==
    \E t \in Threads :
        /\ Done(t) /\ Len(calls[t]) = 2
        /\ calls[t][1].ret > 1 /\ calls[t][2].ret = 0
        /\ calls[t][2].stored > 0 /\ calls[t][2].stored < calls[t][1].ret
        /\ outcome[t].kind = "UnicodeConversionException"

\* What the call f(a) does when no other call is in progress.
Alone(f, a) ==
    IF Length(a) = Size(0) THEN Returned(EmptyStr)
    ELSE IF f = "ToUtf16" /\ ~FitsInt(a) THEN OverflowError
    ELSE IF ~WellFormed(f, a)
         THEN UnicodeConversionException(ERROR_NO_UNICODE_TRANSLATION, ConversionTypeOf(f))
    ELSE Returned(Converted(f, a))

\* C9: under every interleaving of concurrent calls each call returns the same
\* value, or throws the same exception with the same conversion type and error
\* code, as when it runs alone.
C9_ThreadSafe ==
    \A t \in Threads : Done(t) => outcome[t] = Alone(fn[t], arg[t])

\* One thread has returned a conversion while another was between its two
\* passes, and a third call, if any, had not ended.
C9_Witness ==
    \E t, u \in Threads :
        /\ t # u
        /\ Done(t) /\ outcome[t] = Returned(Str(CafeUtf8))
        /\ pc[u] = "converted" /\ fn[u] = "ToUtf16" /\ arg[u] = Str(EmojiUtf8)

\* The strict-validation flag of f's transcoder.
StrictFlag(f) == IF f = "ToUtf16" THEN MB_ERR_INVALID_CHARS ELSE WC_ERR_INVALID_CHARS
TranscoderOf(f) == IF f = "ToUtf16" THEN "MultiByteToWideChar" ELSE "WideCharToMultiByte"

\* C10: a call on non-empty input calls the transcoder first for the size, with
\* a null destination of size zero, and then at most once to convert; both calls
\* have the same source, length and strict-validation flag; when the sizing
\* pass reports zero the call throws UnicodeConversionException with its own
\* conversion type and the error code of that call, no conversion pass is made
\* and no buffer is allocated.
C10_CallOrder ==
    \A t \in Threads :
        fn[t] # "none" =>
            /\ Len(calls[t]) <= 2
            /\ \A i \in 1..Len(calls[t]) :
                   /\ calls[t][i].fn = TranscoderOf(fn[t])
                   /\ calls[t][i].flags = StrictFlag(fn[t])
                   /\ calls[t][i].src = arg[t]
                   /\ Size(calls[t][i].srcLen) = Length(arg[t])
            /\ Len(calls[t]) >= 1 => (calls[t][1].dstNull /\ calls[t][1].dstSize = 0)
            /\ Len(calls[t]) = 2 =>
                   /\ calls[t][1].ret # 0
                   /\ ~calls[t][2].dstNull
                   /\ calls[t][2].dstSize = calls[t][1].ret
            /\ (Len(calls[t]) >= 1 /\ calls[t][1].ret = 0) =>
                   /\ Len(calls[t]) = 1
                   /\ pc[t] \in {"sized", "done"}
                   /\ buf[BufferOf(t)] = NoBuffer
                   /\ pc[t] = "done" =>
                          outcome[t] = UnicodeConversionException(calls[t][1].err,
                                                                  ConversionTypeOf(fn[t]))

\* A sizing pass has reported zero on a lone continuation byte, and the call
\* has thrown with the error code of that pass after that single call.
C10_Witness ==
    \E t \in Threads :
        /\ Done(t) /\ fn[t] = "ToUtf16" /\ arg[t] = Str(<<99, 128, 97>>)
        /\ Len(calls[t]) = 1 /\ calls[t][1].ret = 0
        /\ calls[t][1].err = ERROR_NO_UNICODE_TRANSLATION
        /\ outcome[t] = UnicodeConversionException(ERROR_NO_UNICODE_TRANSLATION,
                                                   "FromUtf8ToUtf16")

====
